---- MODULE Spec2Model ----
(***************************************************************************)
(* A model of jspspike/neat: the innovation registry (innovation.rs), the  *)
(* genome and its operators (genome.rs), the compiled network and its run  *)
(* loop (network.rs) and the population controller (neat.rs).              *)
(*                                                                         *)
(* Numbers.  f32 values are modelled by integers in fixed units and f32    *)
(* arithmetic by exact arithmetic on them:                                 *)
(*   weights                      in units of 1.0                          *)
(*   activations                  in units of 0.05 (4.9 is 98)             *)
(*   connections_diff, weight_diff, species_threshold in units of 0.1      *)
(* A draw rng.gen_range(lo, hi) is a choice among the integer points of    *)
(* the half-open range [lo, hi); a draw rng.gen::<f32>() compared with a   *)
(* rate strictly between 0 and 1 is a free boolean.  u16 arithmetic keeps  *)
(* its width (U16).                                                        *)
(*                                                                         *)
(* The module holds one specification per component:                       *)
(*   Spec         a Neat under calls of step                               *)
(*   SpecGenome   the genome operators on a pool of genomes                *)
(*   SpecInnov    the innovation registry under add and get                *)
(*   SpecSpecies  same_species on two genomes                              *)
(*   SpecRun      Network::run against a Task                              *)
(***************************************************************************)
EXTENDS Integers, Sequences, FiniteSets, TLC

VARIABLES
    gPool,      \* SpecGenome: the genomes under mutation, all of one population
    gInnov,     \* SpecGenome: the InnovationCounter they share
    gSettings,  \* SpecGenome: the NeatSettings passed to the operators
    gLast,      \* SpecGenome: the last operator applied
    gLim,       \* SpecGenome: the limits on the draws followed (see Outcome)
    icCounter,  \* SpecInnov: the InnovationCounter
    icStart,    \* SpecInnov: the argument of new
    icOrder,    \* SpecInnov: the keys added, in the order of their first add
    icLast,     \* SpecInnov: the last call, its argument, result and the counter before it
    sFirst,     \* SpecSpecies: the first genome
    sSecond,    \* SpecSpecies: the second genome
    sSettings,  \* SpecSpecies: the NeatSettings
    sResult,    \* SpecSpecies: same_species(first, second) and same_species(second, first)
    rNet,       \* SpecRun: the Network (self)
    rTask,      \* SpecRun: the Task (task)
    rInputs,    \* SpecRun: the local `inputs` of the loop body
    rPc,        \* SpecRun: where run is: "test", "step", "prop", "done"
    rLog,       \* SpecRun: the calls of step and prop made so far
    rNone,      \* SpecRun: how often score() was seen absent by the loop test
    rResult,    \* SpecRun: the value returned
    eNet,       \* SpecEval: the Network (self)
    eInputs,    \* SpecEval: the argument of prop
    eSolved,    \* SpecEval: the HashSet `solved` of prop
    eStack,     \* SpecEval: the calls of eval in progress, innermost last: [node, k, val]
    eOut,       \* SpecEval: the `i` of the loop of prop over the output ids
    ePc,        \* SpecEval: where prop is: "start", "loop", "eval", "done"
    eCalls,     \* SpecEval: how many calls of eval this prop has made
    xTodo,      \* SpecExecute: the positions the parallel iterator has not handed out yet
    xWorker,    \* SpecExecute: per worker, <<>> or the [index, genome] it is evaluating
    xBefore,    \* SpecExecute: the population when execute was called
    xUsed,      \* SpecExecute: per position, the genomes evaluated for it in this execute
    self_size,           \* Spec: Neat.size
    self_population,     \* Spec: Neat.population
    self_species_count,  \* Spec: Neat.species_count
    self_innovations,    \* Spec: Neat.innovations
    self_settings,       \* Spec: Neat.settings
    self_best,           \* Spec: Neat.best
    pc,             \* Spec: where step is: "idle", "kill", "generate", "return", "panicked"
    panicked,       \* Spec: what the panic was, "" if none
    nStep,          \* Spec: how many calls of step have returned
    groups,         \* Spec: the species the last speciate returned
    keptGroups,     \* Spec: what kill kept of each of them
    evaluated,      \* Spec: every [genome, fitness] an evaluation has produced
    stepMax,        \* Spec: the highest fitness in the population the step speciated
    nSurvivors,     \* Spec: population.len() when generate began
    nCrossed,       \* Spec: population.len() after the crossover loop of generate
    returned,       \* Spec: what the calls of step have returned: [genome, fitness]
    nSources        \* Spec: per organism the last generate added, the positions it read

genomeVars == <<gPool, gInnov, gSettings, gLast, gLim>>
innovVars == <<icCounter, icStart, icOrder, icLast>>
speciesVars == <<sFirst, sSecond, sSettings, sResult>>
runVars == <<rNet, rTask, rInputs, rPc, rLog, rNone, rResult>>

evalVars == <<eNet, eInputs, eSolved, eStack, eOut, ePc, eCalls>>

execVars == <<xTodo, xWorker, xBefore, xUsed>>

neatVars == <<self_size, self_population, self_species_count, self_innovations, self_settings, self_best, pc,
              panicked, nStep, groups, keptGroups, evaluated, stepMax, nSurvivors, nCrossed, returned,
              nSources>>

vars == <<genomeVars, innovVars, speciesVars, runVars, neatVars, evalVars, execVars>>

\* A specification leaves the variables of the others at rest.
GenomeIdle ==
    gPool = <<>> /\ gInnov = <<>> /\ gSettings = <<>> /\ gLast = <<>> /\ gLim = <<>>
InnovIdle == icCounter = <<>> /\ icStart = 0 /\ icOrder = <<>> /\ icLast = <<>>
SpeciesIdle == sFirst = <<>> /\ sSecond = <<>> /\ sSettings = <<>> /\ sResult = <<>>
RunIdle ==
    /\ rNet = <<>> /\ rTask = <<>> /\ rInputs = <<>> /\ rPc = "idle"
    /\ rLog = <<>> /\ rNone = 0 /\ rResult = <<>>
EvalIdle ==
    /\ eNet = <<>> /\ eInputs = <<>> /\ eSolved = {} /\ eStack = <<>> /\ eOut = 0
    /\ ePc = "none" /\ eCalls = 0
ExecIdle == xTodo = {} /\ xWorker = <<>> /\ xBefore = <<>> /\ xUsed = <<>>
NeatIdle ==
    /\ self_size = 0 /\ self_population = <<>> /\ self_species_count = 0 /\ self_innovations = <<>>
    /\ self_settings = <<>> /\ self_best = <<>> /\ pc = "none" /\ panicked = ""
    /\ nStep = 0 /\ groups = <<>> /\ keptGroups = <<>> /\ evaluated = {} /\ stepMax = 0
    /\ nSurvivors = 0 /\ nCrossed = 0 /\ returned = <<>> /\ nSources = <<>>

----------------------------------------------------------------------------
(* Bounds of the model *)

PoolSize == 2       \* SpecGenome: how many genomes are mutated and crossed
MaxInputs == 1      \* inputs of a genome are drawn from 1..MaxInputs
MaxOutputs == 1     \* outputs of a genome are drawn from 1..MaxOutputs
MaxNodes == 3       \* SpecGenome: add_node is taken only while nodes.len() stays <= MaxNodes
MaxW == 0           \* SpecGenome: a drawn weight w is kept only if |w| <= MaxW
MaxAct == 0         \* SpecGenome: a drawn activation a is kept only if |a - 4.9| <= MaxAct units
FfPoolSize == 1     \* SpecFeedforward: how many genomes are mutated and crossed
MaxFfW == 1         \* SpecFeedforward: a drawn weight w is kept only if |w| <= MaxFfW
MaxFfNodes == 4     \* SpecFeedforward: add_node is taken only while nodes.len() stays <= MaxFfNodes
MaxStart == 2       \* SpecInnov: how many values of start are taken at each end of u16
MaxKey == 1         \* SpecInnov: connection keys are pairs of 0..MaxKey
MaxSpKeys == 2      \* SpecSpecies: how many connection keys the two genomes draw from
MaxSpW == 1         \* SpecSpecies: weights are drawn from 0..MaxSpW
MaxSize == 4        \* Spec: the population size is drawn from 1..MaxSize
MaxCrossAct == 1    \* SpecCross: activations stay within 4.9 +- MaxCrossAct * 0.05
MaxCrossNodes == 2  \* SpecCross: add_node draws that keep a genome within this size
RegSize == 4
MaxRegNodes == 3
MaxRegSteps == 1
GenSize == 6
MaxGenSteps == 1
MaxSteps == 2       \* Spec: how many calls of step are followed
MaxFit == 1         \* Spec: the Task's scores are FMin..MaxFit
MaxNeatW == 0       \* Spec: a drawn weight w is kept only if |w| <= MaxNeatW
MaxNeatNodes == 2   \* Spec: add_node is taken only while nodes.len() stays <= MaxNeatNodes
MaxExecSize == 3    \* SpecExecute: the population size is drawn from 1..MaxExecSize
MaxWorkers == 2     \* SpecExecute: the threads of the parallel iterator
MaxEvalNodes == 3   \* SpecEval: the genomes compiled hold at most MaxEvalNodes nodes
MaxEvalW == 1       \* SpecEval: a drawn weight w is kept only if |w| <= MaxEvalW
MaxRunW == 1        \* SpecRun: a drawn weight w is kept only if |w| <= MaxRunW
MaxTaskSteps == 3   \* SpecRun: the Task has a score after at most MaxTaskSteps steps
MaxTaskValue == 1   \* SpecRun: the Task returns inputs in -MaxTaskValue..MaxTaskValue and scores in 0..MaxTaskValue

(* Program constants *)

U16 == 65536                \* the width of u16: count, node ids
DefaultActivation == 98     \* Neuron { activation: 4.9 }, in units of 0.05
SplitWeight == 1            \* weight: 1.0 of the first half of a split connection
FMin == 0                   \* f32::MIN, the fitness of the first tracked best

----------------------------------------------------------------------------
(* innovation.rs *)

\* InnovationCounter::new: count = start - 1 (u16), no connections.
\* (start = 0 underflows: the callers of the model pass start >= 1.)
InnovationCounterNew(start) ==
    [count |-> (start - 1) % U16, connections |-> <<>>]

\* The registry is a HashMap<(u16, u16), u16>: a function from the keys
\* registered so far to their ids (<<>> is the function of the empty domain).
InnovKeys(innov) == DOMAIN innov.connections

\* InnovationCounter::get, as a sequence: <<id>> for Some(id), <<>> for None.
InnovGet(innov, conn) ==
    IF conn \in InnovKeys(innov) THEN <<innov.connections[conn]>> ELSE <<>>

\* self.count += 1 overflows when count is u16::MAX: a debug build panics
\* there, a release build wraps to 0.
InnovAddOverflows(innov, conn) ==
    conn \notin InnovKeys(innov) /\ innov.count = U16 - 1

\* InnovationCounter::add, the state after the call (wrapping on overflow).
InnovAdd(innov, conn) ==
    IF conn \in InnovKeys(innov)
    THEN innov
    ELSE LET c == (innov.count + 1) % U16
         IN  [count |-> c, connections |-> (conn :> c) @@ innov.connections]

\* InnovationCounter::add, the value returned.
InnovAddResult(innov, conn) == InnovAdd(innov, conn).connections[conn]

----------------------------------------------------------------------------
(* neat.rs: NeatSettings *)

\* NeatSettings::default, in the units of the model.  The four rates
\* (weight_mutate_rate 0.8, add_connection_rate 0.35, add_node_rate 0.15,
\* activation_mutate_rate 0.1) lie strictly between 0 and 1: every draw
\* compared with one of them can go either way.  weight_max is read nowhere.
DefaultSettings ==
    [weight |-> 1, weight_mutate |-> 2, activation_mutate |-> 1,
     connections_diff |-> 5, weight_diff |-> 1, species_threshold |-> 7,
     feedforward |-> TRUE, reset_fitness |-> FALSE]

\* rng.gen_range(-r, r): the integer points of [-r, r).
GenRange(r) == (-r)..(r - 1)

----------------------------------------------------------------------------
(* genome.rs *)

\* A Genome: nodes and connections are IndexMaps, modelled as sequences in
\* insertion order without duplicate keys.
\*   nodes[i]       = [id, activation]
\*   connections[i] = [key, weight, enabled],  key = <<source, target>>

NodeIds(g) == {g.nodes[i].id : i \in DOMAIN g.nodes}

ConnKeys(g) == {g.connections[i].key : i \in DOMAIN g.connections}

\* IndexMap::get on the nodes: the position of the key (the caller checks
\* contains_key first).
NodePos(nodes, id) == CHOOSE i \in DOMAIN nodes : nodes[i].id = id

\* IndexMap::get on the connections: the position of the key.
ConnPos(conns, key) == CHOOSE i \in DOMAIN conns : conns[i].key = key

\* IndexMap::insert: a present key keeps its position and takes the new
\* value, an absent one is appended.
NodesInsert(nodes, id, act) ==
    IF \E i \in DOMAIN nodes : nodes[i].id = id
    THEN [nodes EXCEPT ![NodePos(nodes, id)].activation = act]
    ELSE Append(nodes, [id |-> id, activation |-> act])

ConnsInsert(conns, key, weight, enabled) ==
    IF \E i \in DOMAIN conns : conns[i].key = key
    THEN [conns EXCEPT ![ConnPos(conns, key)] =
              [key |-> key, weight |-> weight, enabled |-> enabled]]
    ELSE Append(conns, [key |-> key, weight |-> weight, enabled |-> enabled])

\* Genome::new
GenomeNew(inputs, outputs) ==
    [inputs |-> inputs,
     outputs |-> outputs,
     nodes |-> [i \in 1..(inputs + outputs) |->
                   [id |-> i - 1, activation |-> DefaultActivation]],
     connections |-> <<>>]

\* Genome::is_output, on a 0-based index into the node table.
IsOutput(g, index) == index >= g.inputs /\ index < g.inputs + g.outputs

\* Genome::add_connection with its three draws: input and output are the
\* 0-based indices drawn in 0..nodes.len() and inputs..nodes.len(), w the
\* weight drawn for a new connection.  The result holds the genome, the
\* registry and the value returned.
AddConnection(g, innov, settings, input, output, w) ==
    LET connection == <<g.nodes[input + 1].id, g.nodes[output + 1].id>>
        reverse == <<g.nodes[output + 1].id, g.nodes[input + 1].id>>
        unchanged == [genome |-> g, innovations |-> innov, ok |-> FALSE]
    IN  IF input = output \/ (IsOutput(g, input) /\ IsOutput(g, output))
        THEN unchanged
        ELSE IF settings.feedforward /\ reverse \in ConnKeys(g)
        THEN unchanged
        ELSE IF connection \in ConnKeys(g)
        THEN [genome |-> [g EXCEPT !.connections[ConnPos(g.connections, connection)].enabled = TRUE],
              innovations |-> innov,
              ok |-> TRUE]
        ELSE [genome |-> [g EXCEPT !.connections =
                              Append(@, [key |-> connection, weight |-> w, enabled |-> TRUE])],
              innovations |-> InnovAdd(innov, connection),
              ok |-> TRUE]

\* add_node without its last statement, self.nodes.insert(innovation, ...).
AddNodeWithoutNode(g, innov, index) ==
    IF g.connections = <<>>
    THEN [genome |-> g, innovations |-> innov, panic |-> FALSE]
    ELSE LET info == g.connections[index + 1]
             found == InnovGet(innov, info.key)
         IN  IF found = <<>>
             THEN [genome |-> g, innovations |-> innov, panic |-> TRUE]
             ELSE LET disabled == [g.connections EXCEPT ![index + 1].enabled = FALSE]
                      first == ConnsInsert(disabled, <<info.key[1], found[1]>>,
                                           SplitWeight, TRUE)
                      second == ConnsInsert(first, <<found[1], info.key[2]>>,
                                            info.weight, TRUE)
                  IN  [genome |-> [g EXCEPT !.connections = second],
                       innovations |-> InnovAdd(InnovAdd(innov, <<info.key[1], found[1]>>),
                                                <<found[1], info.key[2]>>),
                       panic |-> FALSE]

\* add_node without the two innovations.add calls.
AddNodeUnregistered(g, innov, index) ==
    IF g.connections = <<>>
    THEN [genome |-> g, innovations |-> innov, panic |-> FALSE]
    ELSE LET info == g.connections[index + 1]
             found == InnovGet(innov, info.key)
         IN  IF found = <<>>
             THEN [genome |-> g, innovations |-> innov, panic |-> TRUE]
             ELSE LET disabled == [g.connections EXCEPT ![index + 1].enabled = FALSE]
                      first == ConnsInsert(disabled, <<info.key[1], found[1]>>,
                                           SplitWeight, TRUE)
                      second == ConnsInsert(first, <<found[1], info.key[2]>>,
                                            info.weight, TRUE)
                  IN  [genome |-> [g EXCEPT !.connections = second,
                                            !.nodes = NodesInsert(g.nodes, found[1],
                                                                  DefaultActivation)],
                       innovations |-> innov,
                       panic |-> FALSE]

\* Genome::add_node with its draw: index is the 0-based index of the
\* connection picked.  panic: innovations.get(connection) was None.
AddNode(g, innov, index) ==
    IF g.connections = <<>>
    THEN [genome |-> g, innovations |-> innov, panic |-> FALSE]
    ELSE LET info == g.connections[index + 1]
             found == InnovGet(innov, info.key)
         IN  IF found = <<>>
             THEN [genome |-> g, innovations |-> innov, panic |-> TRUE]
             ELSE LET innovation == found[1]
                      start == info.key[1]
                      end == info.key[2]
                      disabled == [g.connections EXCEPT ![index + 1].enabled = FALSE]
                      first == ConnsInsert(disabled, <<start, innovation>>, SplitWeight, TRUE)
                      second == ConnsInsert(first, <<innovation, end>>, info.weight, TRUE)
                  IN  [genome |-> [g EXCEPT !.connections = second,
                                            !.nodes = NodesInsert(g.nodes, innovation,
                                                                  DefaultActivation)],
                       innovations |-> InnovAdd(InnovAdd(innov, <<start, innovation>>),
                                                <<innovation, end>>),
                       panic |-> FALSE]

\* Genome::mutate_connections with its draws: delta[i] is what is added to
\* the weight of the i-th connection if it is enabled (0 also stands for a
\* connection the rate draw skipped).
MutateConnections(g, delta) ==
    [g EXCEPT !.connections =
        [i \in DOMAIN g.connections |->
            IF g.connections[i].enabled
            THEN [g.connections[i] EXCEPT !.weight = @ + delta[i]]
            ELSE g.connections[i]]]

\* Genome::mutate_nodes with its draws: delta[i] is what is added to the
\* activation of the i-th node (0 also stands for a node the rate draw skipped).
MutateNodes(g, delta) ==
    [g EXCEPT !.nodes =
        [i \in DOMAIN g.nodes |-> [g.nodes[i] EXCEPT !.activation = @ + delta[i]]]]

\* Genome::cross, from the k-th connection of better on: fromWorse[k] is the
\* draw rng.gen::<f32>() < 0.5 for that connection.  panic: a node lookup in
\* a parent (the unwrap of nodes.get) was None.
RECURSIVE CrossFrom(_, _, _, _, _)
CrossFrom(better, worse, fromWorse, k, child) ==
    IF k > Len(better.connections)
    THEN [genome |-> child, panic |-> FALSE]
    ELSE LET info == better.connections[k]
             start == info.key[1]
             end == info.key[2]
             takeWorse == info.key \in ConnKeys(worse) /\ fromWorse[k]
             parent == IF takeWorse THEN worse ELSE better
             n1 == IF start \notin NodeIds(child)
                   THEN Append(child.nodes, parent.nodes[NodePos(parent.nodes, start)])
                   ELSE child.nodes
             n2 == IF \A i \in DOMAIN n1 : n1[i].id # end
                   THEN Append(n1, parent.nodes[NodePos(parent.nodes, end)])
                   ELSE n1
             gene == IF takeWorse
                     THEN worse.connections[ConnPos(worse.connections, info.key)]
                     ELSE info
         IN  IF start \notin NodeIds(child) /\ start \notin NodeIds(parent)
             THEN [genome |-> child, panic |-> TRUE]
             ELSE IF (\A i \in DOMAIN n1 : n1[i].id # end) /\ end \notin NodeIds(parent)
             THEN [genome |-> [child EXCEPT !.nodes = n1], panic |-> TRUE]
             ELSE CrossFrom(better, worse, fromWorse, k + 1,
                            [child EXCEPT !.nodes = n2,
                                          !.connections =
                                              ConnsInsert(@, info.key, gene.weight,
                                                          gene.enabled)])

\* cross that also inherits the connections only worse has.
CrossWithExcess(better, worse, fromWorse) ==
    LET r == CrossFrom(better, worse, fromWorse, 1, GenomeNew(better.inputs, better.outputs))
        excess == SelectSeq(worse.connections, LAMBDA c : c.key \notin ConnKeys(better))
    IN  [r EXCEPT !.genome.connections = @ \o excess]

\* cross with a child that starts without nodes instead of from Genome::new.
CrossIntoEmpty(better, worse, fromWorse) ==
    CrossFrom(better, worse, fromWorse, 1,
              [GenomeNew(better.inputs, better.outputs) EXCEPT !.nodes = <<>>])

\* Genome::cross.  panic also stands for the two assert_eq! on inputs and outputs.
Cross(better, worse, fromWorse) ==
    IF better.inputs # worse.inputs \/ better.outputs # worse.outputs
    THEN [genome |-> better, panic |-> TRUE]
    ELSE CrossFrom(better, worse, fromWorse, 1, GenomeNew(better.inputs, better.outputs))

Abs(x) == IF x < 0 THEN -x ELSE x

\* The first loop of same_species, from the k-th connection of first on:
\* <<c_diff, w_diff>>.
RECURSIVE SpeciesFirstLoop(_, _, _, _, _)
SpeciesFirstLoop(first, second, k, c_diff, w_diff) ==
    IF k > Len(first.connections)
    THEN <<c_diff, w_diff>>
    ELSE LET f_info == first.connections[k]
         IN  IF f_info.key \in ConnKeys(second)
             THEN SpeciesFirstLoop(first, second, k + 1, c_diff,
                      w_diff + Abs(f_info.weight
                                   - second.connections[ConnPos(second.connections,
                                                                f_info.key)].weight))
             ELSE SpeciesFirstLoop(first, second, k + 1, c_diff + 1, w_diff)

\* second.connections.keys().fold(0.0, ...), from the k-th key on.
RECURSIVE SpeciesFold(_, _, _, _)
SpeciesFold(first, second, k, acc) ==
    IF k > Len(second.connections)
    THEN acc
    ELSE SpeciesFold(first, second, k + 1,
                     IF second.connections[k].key \notin ConnKeys(first) THEN acc + 1 ELSE acc)

Max(a, b) == IF a >= b THEN a ELSE b

\* same_species with <= for <.
SameSpeciesOrEqual(first, second, settings) ==
    LET loop == SpeciesFirstLoop(first, second, 1, 0, 0)
        c_diff == loop[1] + SpeciesFold(first, second, 1, 0)
        size == Max(Len(first.connections), Len(second.connections))
    IN  IF size # 0
        THEN c_diff * settings.connections_diff + loop[2] * settings.weight_diff * size
                 <= settings.species_threshold * size
        ELSE loop[2] * settings.weight_diff <= settings.species_threshold

\* Genome::same_species.  (c_diff * connections_diff) / size + w_diff * weight_diff
\* < species_threshold is compared after multiplying both sides by size.
SameSpecies(first, second, settings) ==
    LET loop == SpeciesFirstLoop(first, second, 1, 0, 0)
        c_diff == loop[1] + SpeciesFold(first, second, 1, 0)
        w_diff == loop[2]
        size == Max(Len(first.connections), Len(second.connections))
    IN  IF size # 0
        THEN c_diff * settings.connections_diff + w_diff * settings.weight_diff * size
                 < settings.species_threshold * size
        ELSE w_diff * settings.weight_diff < settings.species_threshold

\* Genome::mutate, all its draws taken: the set of outcomes
\* [genome, innovations, panic].  lim bounds the draws the model follows:
\* a weight is kept within lim.maxW of 0, an activation within lim.maxAct of
\* 4.9, and a node is added only while the genome holds at most lim.maxNodes.
Outcome(g, innov, panic) == [genome |-> g, innovations |-> innov, panic |-> panic]

AddConnectionOutcomes(g, innov, settings, lim) ==
    {LET r == AddConnection(g, innov, settings, d[1], d[2], d[3])
     IN  Outcome(r.genome, r.innovations, FALSE) :
         d \in (0..(Len(g.nodes) - 1)) \X (g.inputs..(Len(g.nodes) - 1))
                   \X {w \in GenRange(settings.weight) : w >= -lim.maxW /\ w <= lim.maxW}}

\* The draws of add_node the model follows: the node of the split is there
\* already, or there is room for it.
AddNodeDraws(g, innov, lim) ==
    {index \in 0..(Len(g.connections) - 1) :
        LET found == InnovGet(innov, g.connections[index + 1].key)
        IN  found = <<>> \/ found[1] \in NodeIds(g) \/ Len(g.nodes) < lim.maxNodes}

AddNodeOutcomes(g, innov, lim) ==
    IF g.connections = <<>>
    THEN {Outcome(g, innov, FALSE)}
    ELSE {LET r == AddNode(g, innov, index)
          IN  Outcome(r.genome, r.innovations, r.panic) :
              index \in AddNodeDraws(g, innov, lim)}

\* The draws of mutate_connections the model follows, as sequences of deltas
\* for the first k connections.
RECURSIVE WeightDeltas(_, _, _, _)
WeightDeltas(g, settings, lim, k) ==
    IF k = 0
    THEN {<<>>}
    ELSE LET c == g.connections[k]
             allowed == {d \in GenRange(settings.weight_mutate) \cup {0} :
                            \/ d = 0
                            \/ /\ c.enabled
                               /\ c.weight + d >= -lim.maxW
                               /\ c.weight + d <= lim.maxW}
         IN  {Append(p, d) : p \in WeightDeltas(g, settings, lim, k - 1), d \in allowed}

\* The draws of mutate_nodes the model follows, as sequences of deltas for
\* the first k nodes.
RECURSIVE ActivationDeltas(_, _, _, _)
ActivationDeltas(g, settings, lim, k) ==
    IF k = 0
    THEN {<<>>}
    ELSE LET a == g.nodes[k].activation
             allowed == {d \in GenRange(settings.activation_mutate) \cup {0} :
                            \/ d = 0
                            \/ /\ a + d >= DefaultActivation - lim.maxAct
                               /\ a + d <= DefaultActivation + lim.maxAct}
         IN  {Append(p, d) : p \in ActivationDeltas(g, settings, lim, k - 1), d \in allowed}

MutateOutcomes(g, innov, settings, lim) ==
    LET s0 == {Outcome(g, innov, FALSE)}
        \* if rng.gen::<f32>() <= settings.add_connection_rate
        s1 == s0 \cup AddConnectionOutcomes(g, innov, settings, lim)
        \* if rng.gen::<f32>() <= settings.add_node_rate
        s2 == s1 \cup UNION {AddNodeOutcomes(r.genome, r.innovations, lim) : r \in s1}
        s3 == UNION {IF r.panic THEN {r}
                     ELSE {Outcome(MutateConnections(r.genome, delta), r.innovations, FALSE) :
                              delta \in WeightDeltas(r.genome, settings, lim,
                                                    Len(r.genome.connections))} : r \in s2}
        s4 == UNION {IF r.panic THEN {r}
                     ELSE {Outcome(MutateNodes(r.genome, delta), r.innovations, FALSE) :
                              delta \in ActivationDeltas(r.genome, settings, lim,
                                                        Len(r.genome.nodes))} : r \in s3}
    IN  s4

\* Genome::cross, all its draws taken: the set of outcomes [genome, panic].
CrossOutcomes(better, worse) ==
    {Cross(better, worse, fromWorse) :
        fromWorse \in [DOMAIN better.connections -> BOOLEAN]}

----------------------------------------------------------------------------
(* network.rs *)

\* A Network: nodes is an IndexMap in the genome's node order,
\*   nodes[i] = [id, value, activation, inputs],  inputs[k] = [start, weight]
\* Node values are f32 in units of 0.5.

\* The Edges pushed onto the node `id`, in the order of the genome's
\* enabled connections.
EdgesInto(g, id) ==
    LET into == SelectSeq(g.connections, LAMBDA c : c.enabled /\ c.key[2] = id)
    IN  [k \in DOMAIN into |-> [start |-> into[k].key[1], weight |-> into[k].weight]]

\* Network::new.  panic: nodes.get_mut(end) was None for an enabled connection.
NetworkNew(g) ==
    [nodes |-> [i \in DOMAIN g.nodes |->
                   [id |-> g.nodes[i].id,
                    value |-> 0,
                    activation |-> g.nodes[i].activation,
                    inputs |-> EdgesInto(g, g.nodes[i].id)]],
     inputs |-> g.inputs,
     outputs |-> g.outputs,
     panic |-> \E i \in DOMAIN g.connections :
                   g.connections[i].enabled /\ g.connections[i].key[2] \notin NodeIds(g)]

\* sigmoid(x, activation) = 1 / (1 + exp(-activation * x)), in units of 0.5
\* and saturated: 0.5 at activation * x = 0, towards 0.0 below and towards
\* 1.0 above.
Sigmoid(x, activation) ==
    IF activation * x < 0 THEN 0 ELSE IF activation * x = 0 THEN 1 ELSE 2

\* Network::set_inputs: the values go to the first `inputs` nodes by position.
\* (assert_eq!(self.inputs, inputs.len()) is the caller's to meet.)
SetInputs(net, inputs) ==
    [net EXCEPT !.nodes =
        [i \in DOMAIN net.nodes |->
            IF i <= net.inputs /\ i <= Len(inputs)
            THEN [net.nodes[i] EXCEPT !.value = inputs[i]]
            ELSE net.nodes[i]]]

\* get_outputs without skip(self.inputs).
GetOutputsUnskipped(net) ==
    [k \in 1..(IF Len(net.nodes) < net.outputs THEN Len(net.nodes) ELSE net.outputs) |->
        net.nodes[k].value]

\* Network::get_outputs: the values of the `outputs` nodes that follow the
\* first `inputs` nodes by position.
GetOutputs(net) ==
    LET n == IF Len(net.nodes) - net.inputs < net.outputs
             THEN (IF Len(net.nodes) > net.inputs THEN Len(net.nodes) - net.inputs ELSE 0)
             ELSE net.outputs
    IN  [k \in 1..n |-> net.nodes[net.inputs + k].value]

\* Network::reset
Reset(net) ==
    [net EXCEPT !.nodes = [i \in DOMAIN net.nodes |-> [net.nodes[i] EXCEPT !.value = 0]]]

\* self.nodes[&id]: the position of the node with that id.
NetPos(net, id) == CHOOSE i \in DOMAIN net.nodes : net.nodes[i].id = id

\* Network::eval: the result holds the network (eval writes the values of
\* the nodes it recurses into), the solved set and the value returned.
\* EvalEdges is the loop over node.inputs from the k-th edge on, val so far.
RECURSIVE EvalEdges(_, _, _, _, _)
EvalEdges(net, node, k, solved, val) ==
    IF k > Len(node.inputs)
    THEN [net |-> net, solved |-> solved, val |-> Sigmoid(val, node.activation)]
    ELSE LET edge == node.inputs[k]
         IN  IF edge.start \in solved
             THEN EvalEdges(net, node, k + 1, solved,
                            val + net.nodes[NetPos(net, edge.start)].value * edge.weight)
             ELSE LET n == net.nodes[NetPos(net, edge.start)]
                      r == EvalEdges(net, n, 1, solved \cup {edge.start}, 0)
                      written == [r.net EXCEPT !.nodes[NetPos(net, edge.start)].value = r.val]
                  IN  EvalEdges(written, node, k + 1, r.solved, val + r.val * edge.weight)

Eval(net, node, solved) == EvalEdges(net, node, 1, solved, 0)

\* Network::prop, from the output node with id i on.
RECURSIVE PropFrom(_, _, _)
PropFrom(net, solved, i) ==
    IF i >= net.inputs + net.outputs
    THEN net
    ELSE LET r == Eval(net, net.nodes[NetPos(net, i)], solved)
         IN  PropFrom([r.net EXCEPT !.nodes[NetPos(net, i)].value = r.val], r.solved, i + 1)

\* Network::prop
Prop(net, inputs) == PropFrom(SetInputs(net, inputs), 0..(net.inputs - 1), net.inputs)

----------------------------------------------------------------------------
(* neat.rs: the population controller *)

\* An Organism is [genome, fitness]; fitness is <<f>> for Some(f), <<>> for None.
\* Fitness values are the integers FMin..MaxFit, FMin standing for f32::MIN.
\* (Scores that are NaN or infinite are left out: see partial_cmp in kill.)
OrganismNew(genome) == [genome |-> genome, fitness |-> <<>>]

\* The body of the loop of Neat::new: Genome::new, add_connection (its
\* result dropped), mutate.  The set of outcomes [genome, innovations, panic].
NewGenomeOutcomes(inputs, outputs, innov, settings, lim) ==
    LET g == GenomeNew(inputs, outputs)
        s1 == AddConnectionOutcomes(g, innov, settings, lim)
    IN  UNION {MutateOutcomes(r.genome, r.innovations, settings, lim) : r \in s1}

\* The loop of Neat::new after n organisms: the set of [population, innovations].
RECURSIVE NewPopulations(_, _, _, _, _)
NewPopulations(n, inputs, outputs, settings, lim) ==
    IF n = 0
    THEN {[population |-> <<>>, innovations |-> InnovationCounterNew(inputs + outputs)]}
    ELSE UNION {{[population |-> Append(st.population, OrganismNew(r.genome)),
                  innovations |-> r.innovations] :
                    r \in NewGenomeOutcomes(inputs, outputs, st.innovations, settings, lim)} :
                st \in NewPopulations(n - 1, inputs, outputs, settings, lim)}

\* speciate with > turned to <.
RECURSIVE SpeciateKeepingWorst(_, _, _, _, _)
SpeciateKeepingWorst(population, k, species, best, settings) ==
    IF k > Len(population)
    THEN [species |-> species, best |-> best]
    ELSE LET org == population[k]
             matching == {i \in DOMAIN species :
                             SameSpecies(species[i][1].genome, org.genome, settings)}
         IN  SpeciateKeepingWorst(population, k + 1,
                 IF matching = {}
                 THEN Append(species, <<org>>)
                 ELSE LET i == CHOOSE x \in matching : \A y \in matching : x <= y
                      IN  [species EXCEPT ![i] = Append(@, org)],
                 IF org.fitness[1] < best.fitness[1] THEN org ELSE best,
                 settings)

\* The 'population loop of speciate from the k-th organism on: the tracked
\* best is replaced by an organism of greater fitness, and the organism
\* joins the first group whose first member is of its species, or starts a
\* group.  (Every fitness is Some here: execute has run.)
RECURSIVE Speciate(_, _, _, _, _)
Speciate(population, k, species, best, settings) ==
    IF k > Len(population)
    THEN [species |-> species, best |-> best]
    ELSE LET org == population[k]
             matching == {i \in DOMAIN species :
                             SameSpecies(species[i][1].genome, org.genome, settings)}
         IN  Speciate(population, k + 1,
                 IF matching = {}
                 THEN Append(species, <<org>>)
                 ELSE LET i == CHOOSE x \in matching : \A y \in matching : x <= y
                      IN  [species EXCEPT ![i] = Append(@, org)],
                 IF org.fitness[1] > best.fitness[1] THEN org ELSE best,
                 settings)

Shuffles(n) == {p \in [1..n -> 1..n] : \A i, j \in 1..n : i # j => p[i] # p[j]}

Permuted(seq, p) == [i \in DOMAIN seq |-> seq[p[i]]]

\* The orders sort_unstable_by can leave a group in, with the comparison
\* turned round (a before b when a is the less fit).
SortedAscending(group) ==
    {Permuted(group, p) : p \in
        {q \in Shuffles(Len(group)) :
            \A i, j \in DOMAIN group :
                i < j => group[q[i]].fitness[1] <= group[q[j]].fitness[1]}}

\* group.sort_unstable_by(|a, b| b.fitness.partial_cmp(&a.fitness).unwrap()):
\* the orders the sort can leave the group in, fittest first, equal fitness
\* in any order.
SortedDescending(group) ==
    {Permuted(group, p) : p \in
        {q \in Shuffles(Len(group)) :
            \A i, j \in DOMAIN group :
                i < j => group[q[i]].fitness[1] >= group[q[j]].fitness[1]}}

\* The loop of kill over the groups, from the k-th on: what each group
\* appends to the population.  A group of one is kept on rng.gen::<f32>() > 0.5;
\* a larger one is sorted and drained from len / 2 on.
RECURSIVE KillOutcomes(_, _)
KillOutcomes(species, k) ==
    IF k > Len(species)
    THEN {<<>>}
    ELSE LET group == species[k]
             kept == IF Len(group) = 1
                     THEN {group, <<>>}
                     ELSE {SubSeq(sorted, 1, Len(group) \div 2) :
                              sorted \in SortedDescending(group)}
         IN  {<<x>> \o rest : x \in kept, rest \in KillOutcomes(species, k + 1)}

RECURSIVE Flatten(_)
Flatten(seqs) == IF seqs = <<>> THEN <<>> ELSE Head(seqs) \o Flatten(Tail(seqs))

\* let cross_cap = self.size * 3 / 4;
CrossCap(size) == (size * 3) \div 4

\* One more clone than there is room for.
CloneCountInclusive(size, length) == size - length + 1

\* The iterations of the clone loop, 0..self.size - length.
CloneCount(size, length) == size - length

\* The crossover loop of generate from iteration i to n, from the states in
\* `states`: each is [population, panic].  panic: population[i] or
\* population[i + 1] is out of bounds, or cross panicked.
RECURSIVE CrossLoop(_, _, _)
CrossLoop(states, i, n) ==
    IF i >= n
    THEN states
    ELSE CrossLoop(
             UNION {IF st.panic # "" THEN {st}
                    ELSE IF i + 2 > Len(st.population)
                    THEN {[st EXCEPT !.panic = "index"]}
                    ELSE {IF r.panic
                          THEN [st EXCEPT !.panic = "cross"]
                          ELSE [st EXCEPT !.population = Append(@, OrganismNew(r.genome)),
                                          !.sources = Append(@, <<i, i + 1>>)] :
                            r \in CrossOutcomes(st.population[i + 1].genome,
                                                st.population[i + 2].genome)} :
                    st \in states},
             i + 1, n)

\* The clone loop of generate from iteration i to n, from the states in
\* `states`: each is [population, innovations, panic].  panic: population[i]
\* is out of bounds, or mutate panicked.
RECURSIVE CloneLoop(_, _, _, _, _)
CloneLoop(states, i, n, settings, lim) ==
    IF i >= n
    THEN states
    ELSE CloneLoop(
             UNION {IF st.panic # "" THEN {st}
                    ELSE IF i + 1 > Len(st.population)
                    THEN {[st EXCEPT !.panic = "index"]}
                    ELSE {IF r.panic
                          THEN [st EXCEPT !.panic = "add_node"]
                          ELSE [st EXCEPT !.population = Append(@, OrganismNew(r.genome)),
                                          !.innovations = r.innovations,
                                          !.sources = Append(@, <<i>>)] :
                            r \in MutateOutcomes(st.population[i + 1].genome,
                                                 st.innovations, settings, lim)} :
                    st \in states},
             i + 1, n, settings, lim)

\* Neat::generate, all its draws taken: the set of outcomes
\* [population, innovations, panic, crossed, sources], crossed the length of
\* the population after the crossover loop, sources the indices into
\* self.population each push read its genomes from.
GenerateOutcomes(population, innov, size, settings, lim) ==
    LET shuffled == {Permuted(population, p) : p \in Shuffles(Len(population))}
        length == Len(population)
        crossed == CrossLoop({[population |-> s, innovations |-> innov, panic |-> "",
                               crossed |-> 0, sources |-> <<>>] : s \in shuffled},
                             0, CrossCap(size) - length)
        counted == {[st EXCEPT !.crossed = Len(st.population)] : st \in crossed}
    IN  UNION {IF st.panic # "" THEN {st}
               ELSE IF Len(st.population) > size
               THEN {[st EXCEPT !.panic = "overflow"]}
               ELSE CloneLoop({st}, 0, CloneCount(size, Len(st.population)), settings, lim) :
               st \in counted}

----------------------------------------------------------------------------
(* SpecGenome: the genome operators, applied in any order to the genomes   *)
(* of one population sharing one registry.                                 *)

GenomeLim == [maxW |-> MaxW, maxAct |-> MaxAct, maxNodes |-> MaxNodes]


InitGenome ==
    /\ \E inputs \in 1..MaxInputs, outputs \in 1..MaxOutputs :
        /\ gPool = [i \in 1..PoolSize |-> GenomeNew(inputs, outputs)]
        /\ gInnov = InnovationCounterNew(inputs + outputs)
    /\ gSettings = DefaultSettings
    /\ gLast = [op |-> "new", panic |-> FALSE]
    /\ gLim = GenomeLim
    /\ InnovIdle /\ SpeciesIdle /\ RunIdle /\ NeatIdle /\ EvalIdle /\ ExecIdle

GAddConnection(i) ==
    /\ ~gLast.panic
    /\ \E r \in AddConnectionOutcomes(gPool[i], gInnov, gSettings, gLim) :
        /\ gPool' = [gPool EXCEPT ![i] = r.genome]
        /\ gInnov' = r.innovations
        /\ gLast' = [op |-> "add_connection", panic |-> FALSE]
    /\ UNCHANGED <<gSettings, gLim, innovVars, speciesVars, runVars, neatVars, evalVars, execVars>>

\* gLast keeps the genome add_node was called on and the index it drew.
GAddNode(i) ==
    /\ ~gLast.panic
    /\ \E index \in (IF gPool[i].connections = <<>> THEN {0}
                     ELSE AddNodeDraws(gPool[i], gInnov, gLim)) :
        LET r == AddNode(gPool[i], gInnov, index)
        IN  /\ gPool' = [gPool EXCEPT ![i] = r.genome]
            /\ gInnov' = r.innovations
            /\ gLast' = [op |-> "add_node", panic |-> r.panic, target |-> i,
                         before |-> gPool[i], index |-> index]
    /\ UNCHANGED <<gSettings, gLim, innovVars, speciesVars, runVars, neatVars, evalVars, execVars>>

GMutate(i) ==
    /\ ~gLast.panic
    /\ \E r \in MutateOutcomes(gPool[i], gInnov, gSettings, gLim) :
        /\ gPool' = [gPool EXCEPT ![i] = r.genome]
        /\ gInnov' = r.innovations
        /\ gLast' = [op |-> "mutate", panic |-> r.panic]
    /\ UNCHANGED <<gSettings, gLim, innovVars, speciesVars, runVars, neatVars, evalVars, execVars>>

\* The child of gPool[i] (better) and gPool[j] (worse) takes the place of
\* gPool[k]; gLast keeps the two parents and the coin flips of the call.
GCross(i, j, k) ==
    /\ ~gLast.panic
    /\ \E fromWorse \in [DOMAIN gPool[i].connections -> BOOLEAN] :
        LET r == Cross(gPool[i], gPool[j], fromWorse)
        IN  /\ gPool' = [gPool EXCEPT ![k] = r.genome]
            /\ gLast' = [op |-> "cross", panic |-> r.panic, child |-> k,
                         betterKeys |-> ConnKeys(gPool[i]), worseKeys |-> ConnKeys(gPool[j]),
                         better |-> gPool[i], worse |-> gPool[j], fromWorse |-> fromWorse]
    /\ UNCHANGED <<gInnov, gSettings, gLim, innovVars, speciesVars, runVars, neatVars, evalVars, execVars>>

NextGenome ==
    \/ \E i \in DOMAIN gPool : GAddConnection(i)
    \/ \E i \in DOMAIN gPool : GAddNode(i)
    \/ \E i \in DOMAIN gPool : GMutate(i)
    \/ \E i \in DOMAIN gPool, j \in DOMAIN gPool, k \in DOMAIN gPool : GCross(i, j, k)

SpecGenome == InitGenome /\ [][NextGenome]_vars

----------------------------------------------------------------------------
(* SpecCross: the same pool with mutate_nodes moving the activations, so   *)
(* that the parents of a crossover differ in them.                         *)

CrossLim == [maxW |-> 0, maxAct |-> MaxCrossAct, maxNodes |-> MaxCrossNodes]

InitCross ==
    /\ \E inputs \in 1..MaxInputs, outputs \in 1..MaxOutputs :
        /\ gPool = [i \in 1..PoolSize |-> GenomeNew(inputs, outputs)]
        /\ gInnov = InnovationCounterNew(inputs + outputs)
    /\ gSettings = DefaultSettings
    /\ gLast = [op |-> "new", panic |-> FALSE]
    /\ gLim = CrossLim
    /\ InnovIdle /\ SpeciesIdle /\ RunIdle /\ NeatIdle /\ EvalIdle /\ ExecIdle

SpecCross == InitCross /\ [][NextGenome]_vars

----------------------------------------------------------------------------
(* SpecFeedforward: the structural operators (add_connection, add_node,    *)
(* cross) on genomes of one population, with feedforward enabled.          *)

FeedforwardLim == [maxW |-> MaxFfW, maxAct |-> 0, maxNodes |-> MaxFfNodes]

InitFeedforward ==
    /\ \E inputs \in 1..MaxInputs, outputs \in 1..MaxOutputs :
        /\ gPool = [i \in 1..FfPoolSize |-> GenomeNew(inputs, outputs)]
        /\ gInnov = InnovationCounterNew(inputs + outputs)
    /\ gSettings = DefaultSettings
    /\ gLast = [op |-> "new", panic |-> FALSE]
    /\ gLim = FeedforwardLim
    /\ InnovIdle /\ SpeciesIdle /\ RunIdle /\ NeatIdle /\ EvalIdle /\ ExecIdle

NextFeedforward ==
    \/ \E i \in DOMAIN gPool : GAddConnection(i)
    \/ \E i \in DOMAIN gPool : GAddNode(i)
    \/ \E i \in DOMAIN gPool, j \in DOMAIN gPool, k \in DOMAIN gPool : GCross(i, j, k)

SpecFeedforward == InitFeedforward /\ [][NextFeedforward]_vars

----------------------------------------------------------------------------
(* SpecInnov: an InnovationCounter under any sequence of add and get.      *)

\* new(start) with start in 1..MaxStart and in the last MaxStart values of u16.
Starts == (1..MaxStart) \cup ((U16 - MaxStart)..(U16 - 1))

\* The connection keys passed to add and get.
IcKeys == (0..MaxKey) \X (0..MaxKey)

InitInnov ==
    /\ icStart \in Starts
    /\ icCounter = InnovationCounterNew(icStart)
    /\ icOrder = <<>>
    /\ icLast = [op |-> "new", panic |-> FALSE]
    /\ GenomeIdle /\ SpeciesIdle /\ RunIdle /\ NeatIdle /\ EvalIdle /\ ExecIdle

\* add(conn).  Where self.count += 1 overflows, the build decides: the call
\* panics (overflow checks on) or the count wraps (overflow checks off).
IcAdd(conn) ==
    /\ ~icLast.panic
    /\ \/ /\ icCounter' = InnovAdd(icCounter, conn)
          /\ icLast' = [op |-> "add", panic |-> FALSE, key |-> conn,
                        id |-> InnovAddResult(icCounter, conn), before |-> icCounter]
          /\ icOrder' = IF conn \in InnovKeys(icCounter) THEN icOrder
                        ELSE Append(icOrder, conn)
       \/ /\ InnovAddOverflows(icCounter, conn)
          /\ icLast' = [op |-> "add", panic |-> TRUE]
          /\ UNCHANGED <<icCounter, icOrder>>
    /\ UNCHANGED <<icStart, genomeVars, speciesVars, runVars, neatVars, evalVars, execVars>>

\* get(conn)
IcGet(conn) ==
    /\ ~icLast.panic
    /\ icLast' = [op |-> "get", panic |-> FALSE, key |-> conn,
                  id |-> InnovGet(icCounter, conn), before |-> icCounter]
    /\ UNCHANGED <<icCounter, icStart, icOrder, genomeVars, speciesVars, runVars, neatVars, evalVars, execVars>>

NextInnov == \E conn \in IcKeys : IcAdd(conn) \/ IcGet(conn)

SpecInnov == InitInnov /\ [][NextInnov]_vars

----------------------------------------------------------------------------
(* SpecSpecies: same_species on two genomes.                               *)

\* The settings of tests::test_same_species (connections_diff 1.0,
\* weight_diff 0.1, species_threshold 1.0).
TestSettings ==
    [DefaultSettings EXCEPT !.weight_mutate = 1, !.connections_diff = 10,
                            !.species_threshold = 10]

\* The connection keys of the genomes compared: (0, 2), (0, 3), ...
SpKey(k) == <<0, k + 1>>

\* The connection tables over the first k keys: every key absent, or present
\* with a weight in 0..MaxSpW, enabled or not.
RECURSIVE SpConnections(_)
SpConnections(k) ==
    IF k = 0
    THEN {<<>>}
    ELSE LET rest == SpConnections(k - 1)
         IN  rest \cup {Append(c, [key |-> SpKey(k), weight |-> w, enabled |-> e]) :
                           c \in rest, w \in 0..MaxSpW, e \in BOOLEAN}

SpGenomes == {[GenomeNew(1, 1) EXCEPT !.connections = c] : c \in SpConnections(MaxSpKeys)}

InitSpecies ==
    /\ sFirst \in SpGenomes
    /\ sSecond \in SpGenomes
    /\ sSettings \in {DefaultSettings, TestSettings}
    /\ sResult = <<>>
    /\ GenomeIdle /\ InnovIdle /\ RunIdle /\ NeatIdle /\ EvalIdle /\ ExecIdle

SpCompare ==
    /\ sResult = <<>>
    /\ sResult' = <<SameSpecies(sFirst, sSecond, sSettings),
                    SameSpecies(sSecond, sFirst, sSettings)>>
    /\ UNCHANGED <<sFirst, sSecond, sSettings, genomeVars, innovVars, runVars, neatVars, evalVars, execVars>>

NextSpecies == SpCompare

SpecSpecies == InitSpecies /\ [][NextSpecies]_vars

----------------------------------------------------------------------------
(* SpecRun: Network::run on a network compiled from a genome of an initial *)
(* population, against a Task.                                             *)

RunLim == [maxW |-> MaxRunW, maxAct |-> 0, maxNodes |-> 3]

RunGenomes ==
    {r.genome : r \in NewGenomeOutcomes(1, 1, InnovationCounterNew(2), DefaultSettings, RunLim)}

\* The Task is the caller's: score() (a &self method) reads what new and
\* step left, step returns any vector of the network's input count.  The
\* model follows the tasks that end within MaxTaskSteps steps.
TaskValues == (-MaxTaskValue)..MaxTaskValue

TaskScores == {<<>>} \cup {<<v>> : v \in 0..MaxTaskValue}

\* The values prop wrote to the output nodes, which it addresses by id.
OutputsById(net) ==
    [k \in 1..net.outputs |-> net.nodes[NetPos(net, net.inputs + k - 1)].value]

InitRun ==
    /\ \E g \in RunGenomes : rNet = NetworkNew(g)
    /\ \E score \in TaskScores : rTask = [score |-> score, steps |-> 0]
    /\ rInputs = <<>>
    /\ rPc = "test"
    /\ rLog = <<>>
    /\ rNone = 0
    /\ rResult = <<>>
    /\ GenomeIdle /\ InnovIdle /\ SpeciesIdle /\ NeatIdle /\ EvalIdle /\ ExecIdle

\* while task.score().is_none(), and past the loop: task.score().unwrap()
RunTest ==
    /\ rPc = "test"
    /\ IF rTask.score = <<>>
       THEN rPc' = "step" /\ rNone' = rNone + 1 /\ UNCHANGED rResult
       ELSE rPc' = "done" /\ rResult' = rTask.score /\ UNCHANGED rNone
    /\ UNCHANGED <<rNet, rTask, rInputs, rLog, genomeVars, innovVars, speciesVars, neatVars, evalVars, execVars>>

\* let outputs = self.get_outputs(); let inputs = task.step(outputs);
RunStep ==
    /\ rPc = "step"
    /\ \E inputs \in [1..rNet.inputs -> TaskValues], score \in TaskScores :
        /\ rTask.steps + 1 >= MaxTaskSteps => score # <<>>
        /\ rTask' = [score |-> score, steps |-> rTask.steps + 1]
        /\ rInputs' = inputs
        /\ rLog' = Append(rLog, [call |-> "step", arg |-> GetOutputs(rNet), ret |-> inputs])
    /\ rPc' = "prop"
    /\ UNCHANGED <<rNet, rNone, rResult, genomeVars, innovVars, speciesVars, neatVars, evalVars, execVars>>

\* self.prop(inputs);
RunProp ==
    /\ rPc = "prop"
    /\ rNet' = Prop(rNet, rInputs)
    /\ rLog' = Append(rLog, [call |-> "prop", arg |-> rInputs, ret |-> OutputsById(rNet')])
    /\ rPc' = "test"
    /\ UNCHANGED <<rTask, rInputs, rNone, rResult, genomeVars, innovVars, speciesVars, neatVars, evalVars, execVars>>

NextRun == RunTest \/ RunStep \/ RunProp

SpecRun == InitRun /\ [][NextRun]_vars

----------------------------------------------------------------------------
(* Spec: a Neat from Neat::new on, under calls of step.                    *)

NeatLim == [maxW |-> MaxNeatW, maxAct |-> 0, maxNodes |-> MaxNeatNodes]

\* The settings passed to Neat::new: the default ones with a
\* species_threshold of 0.3, under which genomes with different connection
\* keys are of different species, with reset_fitness off and on.
NeatSettingsChoices ==
    {[DefaultSettings EXCEPT !.species_threshold = 3, !.reset_fitness = r] : r \in BOOLEAN}

\* The scores a Task can return: the finite ones, from f32::MIN up (kill's
\* partial_cmp(..).unwrap() takes the scores to be comparable numbers).
Fitnesses == FMin..MaxFit

\* Neat::new
Init ==
    /\ self_size \in 1..MaxSize
    /\ self_settings \in NeatSettingsChoices
    /\ \E inputs \in 1..MaxInputs, outputs \in 1..MaxOutputs :
        \E st \in NewPopulations(self_size, inputs, outputs, self_settings, NeatLim) :
            /\ self_population = st.population
            /\ self_innovations = st.innovations
    /\ self_best = [self_population[1] EXCEPT !.fitness = <<FMin>>]
    /\ self_species_count = 0
    /\ pc = "idle"
   
    /\ panicked = ""
    /\ nStep = 0
    /\ groups = <<>> /\ keptGroups = <<>> /\ evaluated = {} /\ stepMax = FMin
    /\ nSurvivors = 0 /\ nCrossed = 0 /\ returned = <<>> /\ nSources = <<>>
    /\ GenomeIdle /\ InnovIdle /\ SpeciesIdle /\ RunIdle /\ EvalIdle /\ ExecIdle

\* .filter(|org| org.fitness.is_none() || reset_fitness) with the test left out.
ExecuteFilterAll(org, reset_fitness) == TRUE

\* .filter(|org| org.fitness.is_none() || reset_fitness)
ExecuteFilter(org, reset_fitness) == org.fitness = <<>> \/ reset_fitness

\* execute, called by step: every organism that passes the filter gets a
\* network compiled from its genome and run on a fresh Task, whose score
\* (any fitness) is recorded.  The workers of the parallel iterator each
\* write their own organism only, and execute returns when all are done.
ExecuteWithin(steps) ==
    /\ pc = "idle" /\ nStep < steps
    /\ LET todo == {i \in DOMAIN self_population :
                       ExecuteFilter(self_population[i], self_settings.reset_fitness)}
       IN  IF \E i \in todo : NetworkNew(self_population[i].genome).panic
           THEN /\ pc' = "panicked" /\ panicked' = "network"
                /\ UNCHANGED <<self_population, evaluated>>
           ELSE /\ \E score \in [todo -> Fitnesses] :
                    /\ self_population' =
                           [i \in DOMAIN self_population |->
                               IF i \in todo
                               THEN [self_population[i] EXCEPT !.fitness = <<score[i]>>]
                               ELSE self_population[i]]
                    /\ evaluated' = evaluated \cup
                           {[genome |-> self_population[i].genome, fitness |-> score[i]] :
                               i \in todo}
                /\ pc' = "kill"
                /\ UNCHANGED panicked
    /\ groups' = <<>> /\ keptGroups' = <<>>
    /\ UNCHANGED <<self_size, self_species_count, self_innovations, self_settings, self_best,
                   nStep, stepMax, nSurvivors, nCrossed, returned, nSources>>
    /\ UNCHANGED <<genomeVars, innovVars, speciesVars, runVars, evalVars, execVars>>

Execute == ExecuteWithin(MaxSteps)

\* The greatest fitness among the organisms of a self_population.
MaxFitness(pop) ==
    CHOOSE f \in {pop[i].fitness[1] : i \in DOMAIN pop} :
        \A i \in DOMAIN pop : pop[i].fitness[1] <= f

\* kill: speciate (with the tracked
\* self_best run again first under reset_fitness), then the cull of each group.
Kill ==
    /\ pc = "kill"
    /\ \E again \in (IF self_settings.reset_fitness THEN {<<f>> : f \in Fitnesses}
                     ELSE {self_best.fitness}) :
        LET sp == Speciate(self_population, 1, <<>>, [self_best EXCEPT !.fitness = again], self_settings)
        IN  /\ self_best' = sp.best
            /\ groups' = sp.species
            /\ self_species_count' = Len(sp.species)
            /\ evaluated' = IF self_settings.reset_fitness
                            THEN evaluated \cup {[genome |-> self_best.genome, fitness |-> again[1]]}
                            ELSE evaluated
            /\ \E k \in KillOutcomes(sp.species, 1) :
                /\ keptGroups' = k
                /\ self_population' = Flatten(k)
    /\ stepMax' = MaxFitness(self_population)
    /\ pc' = "generate"
    /\ UNCHANGED <<self_size, self_innovations, self_settings, panicked, nStep, nSurvivors, nCrossed,
                   returned, nSources>>
    /\ UNCHANGED <<genomeVars, innovVars, speciesVars, runVars, evalVars, execVars>>

\* generate, called by step, with the draws of its mutations kept within lim.
GenerateWithin(lim) ==
    /\ pc = "generate"
    /\ \E out \in GenerateOutcomes(self_population, self_innovations, self_size, self_settings, lim) :
        /\ self_population' = out.population
        /\ self_innovations' = out.innovations
        /\ nCrossed' = out.crossed
        /\ nSources' = out.sources
        /\ panicked' = out.panic
        /\ pc' = IF out.panic = "" THEN "return" ELSE "panicked"
    /\ nSurvivors' = Len(self_population)
    /\ UNCHANGED <<self_size, self_species_count, self_settings, self_best, nStep, groups,
                   keptGroups, evaluated, stepMax, returned>>
    /\ UNCHANGED <<genomeVars, innovVars, speciesVars, runVars, evalVars, execVars>>

Generate == GenerateWithin(NeatLim)

\* step returns (Network::new(self.best.genome.clone()), self.best.fitness.unwrap()).
Return ==
    /\ pc = "return"
    /\ IF NetworkNew(self_best.genome).panic
       THEN pc' = "panicked" /\ panicked' = "network" /\ UNCHANGED <<returned, nStep>>
       ELSE /\ pc' = "idle"
            /\ returned' = Append(returned, [genome |-> self_best.genome,
                                              fitness |-> self_best.fitness[1]])
            /\ nStep' = nStep + 1
            /\ UNCHANGED panicked
    /\ UNCHANGED <<self_size, self_population, self_species_count, self_innovations, self_settings, self_best,
                   groups, keptGroups, evaluated, stepMax, nSurvivors, nCrossed, nSources>>
    /\ UNCHANGED <<genomeVars, innovVars, speciesVars, runVars, evalVars, execVars>>

Next ==
    \/ Execute
    \/ Kill
    \/ Generate
    \/ Return

Spec == Init /\ [][Next]_vars

----------------------------------------------------------------------------
(* SpecGenerate: a Neat large enough for generate's crossover loop to run  *)
(* past the survivors (size * 3 / 4 at least twice their number), under    *)
(* calls of step.                                                          *)

\* Neat::new
InitGenerate ==
    /\ self_size \in GenSize..GenSize
    /\ self_settings \in NeatSettingsChoices
    /\ \E inputs \in 1..MaxInputs, outputs \in 1..MaxOutputs :
        \E st \in NewPopulations(self_size, inputs, outputs, self_settings, NeatLim) :
            /\ self_population = st.population
            /\ self_innovations = st.innovations
    /\ self_best = [self_population[1] EXCEPT !.fitness = <<FMin>>]
    /\ self_species_count = 0
    /\ pc = "idle"
    /\ panicked = ""
    /\ nStep = 0
    /\ groups = <<>> /\ keptGroups = <<>> /\ evaluated = {} /\ stepMax = FMin
    /\ nSurvivors = 0 /\ nCrossed = 0 /\ returned = <<>> /\ nSources = <<>>
    /\ GenomeIdle /\ InnovIdle /\ SpeciesIdle /\ RunIdle /\ EvalIdle /\ ExecIdle

NextGenerate ==
    \/ ExecuteWithin(MaxGenSteps)
    \/ Kill
    \/ Generate
    \/ Return

SpecGenerate == InitGenerate /\ [][NextGenerate]_vars

----------------------------------------------------------------------------
(* SpecRegistry: a Neat whose genomes grow hidden nodes, so that add_node  *)
(* splits connections in Neat::new and in generate, under calls of step.   *)

RegistryLim == [maxW |-> 0, maxAct |-> 0, maxNodes |-> MaxRegNodes]

\* Neat::new
InitRegistry ==
    /\ self_size \in RegSize..RegSize
    /\ self_settings \in NeatSettingsChoices
    /\ \E inputs \in 1..MaxInputs, outputs \in 1..MaxOutputs :
        \E st \in NewPopulations(self_size, inputs, outputs, self_settings, RegistryLim) :
            /\ self_population = st.population
            /\ self_innovations = st.innovations
    /\ self_best = [self_population[1] EXCEPT !.fitness = <<FMin>>]
    /\ self_species_count = 0
    /\ pc = "idle"
    /\ panicked = ""
    /\ nStep = 0
    /\ groups = <<>> /\ keptGroups = <<>> /\ evaluated = {} /\ stepMax = FMin
    /\ nSurvivors = 0 /\ nCrossed = 0 /\ returned = <<>> /\ nSources = <<>>
    /\ GenomeIdle /\ InnovIdle /\ SpeciesIdle /\ RunIdle /\ EvalIdle /\ ExecIdle

NextRegistry ==
    \/ ExecuteWithin(MaxRegSteps)
    \/ Kill
    \/ GenerateWithin(RegistryLim)
    \/ Return

SpecRegistry == InitRegistry /\ [][NextRegistry]_vars

----------------------------------------------------------------------------
(* SpecExecute: a Neat under calls of step, with execute followed worker   *)
(* by worker: the parallel iterator hands every organism to one of its     *)
(* threads, in any order, and returns when all of them are done.           *)

Workers == 1..MaxWorkers

InitExecute ==
    /\ self_size \in 1..MaxExecSize
    /\ self_settings \in NeatSettingsChoices
    /\ \E inputs \in 1..MaxInputs, outputs \in 1..MaxOutputs :
        \E st \in NewPopulations(self_size, inputs, outputs, self_settings, NeatLim) :
            /\ self_population = st.population
            /\ self_innovations = st.innovations
    /\ self_best = [self_population[1] EXCEPT !.fitness = <<FMin>>]
    /\ self_species_count = 0
    /\ pc = "idle"
    /\ panicked = ""
    /\ nStep = 0
    /\ groups = <<>> /\ keptGroups = <<>> /\ evaluated = {} /\ stepMax = FMin
    /\ nSurvivors = 0 /\ nCrossed = 0 /\ returned = <<>> /\ nSources = <<>>
    /\ xTodo = {} /\ xWorker = [w \in Workers |-> <<>>] /\ xBefore = <<>> /\ xUsed = <<>>
    /\ GenomeIdle /\ InnovIdle /\ SpeciesIdle /\ RunIdle /\ EvalIdle

\* step calls execute: par_iter_mut() has every organism to hand out.
XBegin ==
    /\ pc = "idle" /\ nStep < MaxSteps
    /\ pc' = "execute"
    /\ xTodo' = DOMAIN self_population
    /\ xBefore' = self_population
    /\ xUsed' = [i \in DOMAIN self_population |-> <<>>]
    /\ groups' = <<>> /\ keptGroups' = <<>>
    /\ UNCHANGED <<xWorker, self_size, self_population, self_species_count, self_innovations,
                   self_settings, self_best, panicked, nStep, evaluated, stepMax, nSurvivors,
                   nCrossed, returned, nSources>>
    /\ UNCHANGED <<genomeVars, innovVars, speciesVars, runVars, evalVars>>

\* A thread that is free takes an organism not handed out yet and applies
\* the filter: an organism that passes has its genome cloned and a network
\* compiled from the clone, one that does not is left alone.
XTake(w, i) ==
    /\ pc = "execute" /\ xWorker[w] = <<>> /\ i \in xTodo
    /\ xTodo' = xTodo \ {i}
    /\ IF ~ExecuteFilter(self_population[i], self_settings.reset_fitness)
       THEN UNCHANGED <<xWorker, pc, panicked>>
       ELSE IF NetworkNew(self_population[i].genome).panic
       THEN pc' = "panicked" /\ panicked' = "network" /\ UNCHANGED xWorker
       ELSE /\ xWorker' = [xWorker EXCEPT ![w] =
                               [index |-> i, genome |-> self_population[i].genome]]
            /\ UNCHANGED <<pc, panicked>>
    /\ UNCHANGED <<xBefore, xUsed, self_size, self_population, self_species_count,
                   self_innovations, self_settings, self_best, nStep, groups, keptGroups,
                   evaluated, stepMax, nSurvivors, nCrossed, returned, nSources>>
    /\ UNCHANGED <<genomeVars, innovVars, speciesVars, runVars, evalVars>>

\* The run of a thread's network on its fresh Task ends with a score (any
\* fitness), which the thread writes to its organism.
XFinish(w) ==
    /\ pc = "execute" /\ xWorker[w] # <<>>
    /\ \E f \in Fitnesses :
        /\ self_population' = [self_population EXCEPT ![xWorker[w].index].fitness = <<f>>]
        /\ evaluated' = evaluated \cup {[genome |-> xWorker[w].genome, fitness |-> f]}
    /\ xUsed' = [xUsed EXCEPT ![xWorker[w].index] = Append(@, xWorker[w].genome)]
    /\ xWorker' = [xWorker EXCEPT ![w] = <<>>]
    /\ UNCHANGED <<xTodo, xBefore, self_size, self_species_count, self_innovations,
                   self_settings, self_best, pc, panicked, nStep, groups, keptGroups, stepMax,
                   nSurvivors, nCrossed, returned, nSources>>
    /\ UNCHANGED <<genomeVars, innovVars, speciesVars, runVars, evalVars>>

\* for_each returns once every organism was handed out and every thread is
\* done; step goes on to kill.
XJoin ==
    /\ pc = "execute" /\ xTodo = {} /\ \A w \in Workers : xWorker[w] = <<>>
    /\ pc' = "kill"
    /\ UNCHANGED <<xTodo, xWorker, xBefore, xUsed, self_size, self_population,
                   self_species_count, self_innovations, self_settings, self_best, panicked,
                   nStep, groups, keptGroups, evaluated, stepMax, nSurvivors, nCrossed,
                   returned, nSources>>
    /\ UNCHANGED <<genomeVars, innovVars, speciesVars, runVars, evalVars>>

NextExecute ==
    \/ XBegin
    \/ \E w \in Workers, i \in 1..MaxExecSize : XTake(w, i)
    \/ \E w \in Workers : XFinish(w)
    \/ XJoin
    \/ Kill
    \/ Generate
    \/ Return

SpecExecute == InitExecute /\ [][NextExecute]_vars

----------------------------------------------------------------------------
(* SpecEval: one call of Network::prop, followed call by call of eval, on  *)
(* the networks compiled from the genomes that add_connection and add_node *)
(* build with the feedforward guard disabled.                              *)

EvalLim == [maxW |-> MaxEvalW, maxAct |-> 0, maxNodes |-> MaxEvalNodes]

EvalSettings == [DefaultSettings EXCEPT !.feedforward = FALSE]

\* The [genome, innovations, panic] reached from those in `reached` by any
\* number of add_connection and add_node.
RECURSIVE StructuralClosure(_)
StructuralClosure(reached) ==
    LET more == reached \cup UNION {
                    IF r.panic THEN {}
                    ELSE AddConnectionOutcomes(r.genome, r.innovations, EvalSettings, EvalLim)
                             \cup AddNodeOutcomes(r.genome, r.innovations, EvalLim) :
                    r \in reached}
    IN  IF more = reached THEN reached ELSE StructuralClosure(more)

EvalGenomes(inputs, outputs) ==
    {r.genome : r \in StructuralClosure({Outcome(GenomeNew(inputs, outputs),
                                                  InnovationCounterNew(inputs + outputs),
                                                  FALSE)})}

InitEval ==
    /\ \E g \in EvalGenomes(1, 1) : eNet = NetworkNew(g)
    /\ eInputs \in [1..1 -> TaskValues]
    /\ eSolved = {}
    /\ eStack = <<>>
    /\ eOut = 0
    /\ ePc = "start"
    /\ eCalls = 0
    /\ GenomeIdle /\ InnovIdle /\ SpeciesIdle /\ RunIdle /\ NeatIdle /\ ExecIdle

\* A call eval(node, solved) begins: node is the caller's clone of the Node.
EvalFrame(node) == [node |-> node, k |-> 1, val |-> 0]

\* solved.insert(edge.start) with the insert left out.
EvalMarkNothing(solved, start) == solved

\* solved.insert(edge.start), before the recursive call.
EvalMark(solved, start) == solved \cup {start}

\* prop up to its loop: set_inputs, and the input ids go into solved.
EPropBegin ==
    /\ ePc = "start"
    /\ eNet' = SetInputs(eNet, eInputs)
    /\ eSolved' = 0..(eNet.inputs - 1)
    /\ eOut' = eNet.inputs
    /\ ePc' = "loop"
    /\ UNCHANGED <<eInputs, eStack, eCalls, genomeVars, innovVars, speciesVars, runVars, neatVars,
                   execVars>>

\* for i in self.inputs..(self.inputs + self.outputs): the node is cloned
\* and eval is called on it; past the last output prop returns.
EPropNext ==
    /\ ePc = "loop"
    /\ IF eOut >= eNet.inputs + eNet.outputs
       THEN ePc' = "done" /\ UNCHANGED <<eStack, eCalls>>
       ELSE /\ eStack' = <<EvalFrame(eNet.nodes[NetPos(eNet, eOut)])>>
            /\ eCalls' = eCalls + 1
            /\ ePc' = "eval"
    /\ UNCHANGED <<eNet, eInputs, eSolved, eOut, genomeVars, innovVars, speciesVars, runVars,
                   neatVars,
                   execVars>>

\* The innermost eval takes its next edge, whose source is in solved: the
\* stored value of the source is used.
EEdgeSolved ==
    /\ ePc = "eval"
    /\ LET f == eStack[Len(eStack)]
       IN  /\ f.k <= Len(f.node.inputs)
           /\ f.node.inputs[f.k].start \in eSolved
           /\ eStack' = [eStack EXCEPT ![Len(eStack)] =
                             [f EXCEPT !.k = @ + 1,
                                       !.val = @ + eNet.nodes[NetPos(eNet, f.node.inputs[f.k].start)].value
                                                   * f.node.inputs[f.k].weight]]
    /\ UNCHANGED <<eNet, eInputs, eSolved, eOut, ePc, eCalls, genomeVars, innovVars, speciesVars,
                   runVars, neatVars,
                   execVars>>

\* The innermost eval takes its next edge, whose source is not in solved:
\* the source is cloned, marked and eval is called on the clone.
ECall ==
    /\ ePc = "eval"
    /\ LET f == eStack[Len(eStack)]
       IN  /\ f.k <= Len(f.node.inputs)
           /\ f.node.inputs[f.k].start \notin eSolved
           /\ eSolved' = EvalMark(eSolved, f.node.inputs[f.k].start)
           /\ eStack' = Append(eStack,
                               EvalFrame(eNet.nodes[NetPos(eNet, f.node.inputs[f.k].start)]))
    /\ eCalls' = eCalls + 1
    /\ UNCHANGED <<eNet, eInputs, eOut, ePc, genomeVars, innovVars, speciesVars, runVars,
                   neatVars,
                   execVars>>

\* The innermost eval is past its last edge and returns sigmoid(val,
\* node.activation): to the eval that called it, which writes the value to
\* the source node and adds it to its sum, or to prop, which writes it to
\* the output node.
EReturn ==
    /\ ePc = "eval"
    /\ LET f == eStack[Len(eStack)]
           v == Sigmoid(f.val, f.node.activation)
       IN  /\ f.k > Len(f.node.inputs)
           /\ IF Len(eStack) = 1
              THEN /\ eNet' = [eNet EXCEPT !.nodes[NetPos(eNet, eOut)].value = v]
                   /\ eStack' = <<>>
                   /\ eOut' = eOut + 1
                   /\ ePc' = "loop"
              ELSE LET c == eStack[Len(eStack) - 1]
                       edge == c.node.inputs[c.k]
                   IN  /\ eNet' = [eNet EXCEPT !.nodes[NetPos(eNet, edge.start)].value = v]
                       /\ eStack' = [SubSeq(eStack, 1, Len(eStack) - 1)
                                        EXCEPT ![Len(eStack) - 1] =
                                            [c EXCEPT !.k = @ + 1, !.val = @ + v * edge.weight]]
                       /\ UNCHANGED <<eOut, ePc>>
    /\ UNCHANGED <<eInputs, eSolved, eCalls, genomeVars, innovVars, speciesVars, runVars,
                   neatVars,
                   execVars>>

NextEval == EPropBegin \/ EPropNext \/ EEdgeSolved \/ ECall \/ EReturn

SpecEval == InitEval /\ [][NextEval]_vars

----------------------------------------------------------------------------
(* Claims *)

\* C5.  For any sequence of add(key) calls on an InnovationCounter created
\* with new(start): the first key added receives the id start, the k-th new
\* key receives start + k - 1 (so distinct keys receive distinct ids that rise
\* by one in the order of their first add), and a repeated add returns the id
\* the key has and leaves the counter and the mapping unchanged.
C5_IdsRiseByOneFromStart ==
    /\ \A k \in DOMAIN icOrder : icCounter.connections[icOrder[k]] = icStart + k - 1
    /\ (icLast.op = "add" /\ ~icLast.panic /\ icLast.key \in InnovKeys(icLast.before))
           => /\ icLast.id = icLast.before.connections[icLast.key]
              /\ icCounter = icLast.before

\* The distance of same_species from the two key sets: the keys in exactly
\* one of them, and the absolute weight differences summed over the keys in both.
SpWeight(g, key) == g.connections[ConnPos(g.connections, key)].weight

RECURSIVE SpSumDiff(_, _, _)
SpSumDiff(a, b, keys) ==
    IF keys = {}
    THEN 0
    ELSE LET k == CHOOSE x \in keys : TRUE
         IN  Abs(SpWeight(a, k) - SpWeight(b, k)) + SpSumDiff(a, b, keys \ {k})

SpCDiff(a, b) == Cardinality((ConnKeys(a) \ ConnKeys(b)) \cup (ConnKeys(b) \ ConnKeys(a)))

SpWDiff(a, b) == SpSumDiff(a, b, ConnKeys(a) \cap ConnKeys(b))

SpSize(a, b) == Max(Cardinality(ConnKeys(a)), Cardinality(ConnKeys(b)))

\* distance - species_threshold, multiplied by the size (by 1 when both
\* genomes have no connections and the first term is 0).
SpMargin(a, b, st) ==
    IF SpSize(a, b) = 0
    THEN SpWDiff(a, b) * st.weight_diff - st.species_threshold
    ELSE SpCDiff(a, b) * st.connections_diff
             + SpWDiff(a, b) * st.weight_diff * SpSize(a, b)
             - st.species_threshold * SpSize(a, b)

\* C7.  same_species(a, b, settings) is true exactly when
\* (c_diff * connections_diff) / max(|a|, |b|) + w_diff * weight_diff is
\* strictly below species_threshold, with c_diff the number of keys in exactly
\* one genome whatever their enabled flags, w_diff the sum of the absolute
\* weight differences over the keys in both, and the first term 0 when both
\* are empty; and it is the same for (a, b) and (b, a).
C7_SameSpeciesIffBelowThreshold ==
    sResult # <<>> =>
        /\ sResult[1] = (SpMargin(sFirst, sSecond, sSettings) < 0)
        /\ sResult[2] = sResult[1]

\* A distance equal to the threshold, between genomes that differ in an
\* enabled flag, was found to be a different species.
C7_Witness ==
    /\ sResult # <<>>
    /\ SpMargin(sFirst, sSecond, sSettings) = 0
    /\ SpSize(sFirst, sSecond) > 0
    /\ \E i \in DOMAIN sFirst.connections : ~sFirst.connections[i].enabled
    /\ sResult = <<FALSE, FALSE>>

\* C9.  The connection keys of cross(better, worse) are keys of better: no
\* key that only worse has is in the child, whatever the draws.
C9_ChildKeysAreKeysOfBetter ==
    (gLast.op = "cross" /\ ~gLast.panic)
        => ConnKeys(gPool[gLast.child]) \subseteq gLast.betterKeys

\* A cross whose worse parent had a key that better had not, and whose
\* better parent had a key of its own and one shared with worse.
C9_Witness ==
    /\ gLast.op = "cross" /\ ~gLast.panic
    /\ gLast.worseKeys \ gLast.betterKeys # {}
    /\ gLast.betterKeys \cap gLast.worseKeys # {}
    /\ ConnKeys(gPool[gLast.child]) # {}

\* Every connection of g, enabled or not, starts and ends at a node of g.
EndpointsAreNodes(g) ==
    \A i \in DOMAIN g.connections :
        g.connections[i].key[1] \in NodeIds(g) /\ g.connections[i].key[2] \in NodeIds(g)

\* C10.  In every genome reached from Genome::new by add_connection,
\* add_node, mutate and cross, both ends of every connection are keys of the
\* node table; no node lookup of cross failed and none of Network::new does.
C10_EndpointsAreNodes ==
    /\ ~gLast.panic
    /\ \A i \in DOMAIN gPool :
        EndpointsAreNodes(gPool[i]) /\ ~NetworkNew(gPool[i]).panic

\* A child of cross with a hidden node, made from parents of which only one
\* had that node.
C10_Witness ==
    /\ gLast.op = "cross"
    /\ Len(gPool[gLast.child].nodes) > gPool[gLast.child].inputs + gPool[gLast.child].outputs
    /\ gLast.betterKeys # gLast.worseKeys
    /\ \E i \in DOMAIN gPool[gLast.child].connections :
           ~gPool[gLast.child].connections[i].enabled

\* The calls of step in the log.
StepCalls == {k \in DOMAIN rLog : rLog[k].call = "step"}

\* C6.  run alternates step and prop on its one Task: the first step is
\* passed the all-zero outputs of the fresh network, every prop is passed
\* what the step before it returned, every later step is passed the outputs
\* the prop before it produced; step is called once for each absent score the
\* loop test saw (never, if the score was there from construction); and run
\* returns the value score() yields.
C6_RunAlternatesStepAndProp ==
    /\ \A k \in DOMAIN rLog :
        /\ rLog[k].call = (IF k % 2 = 1 THEN "step" ELSE "prop")
        /\ k = 1 => rLog[k].arg = [i \in 1..rNet.outputs |-> 0]
        /\ k > 1 => rLog[k].arg = rLog[k - 1].ret
    /\ Cardinality(StepCalls) = (IF rPc = "step" THEN rNone - 1 ELSE rNone)
    /\ rPc \in {"test", "step", "done"} => Len(rLog) % 2 = 0
    /\ rPc = "done" => rTask.score # <<>> /\ rResult = rTask.score

\* A run that ended after more than one step, in which a prop produced
\* outputs other than the inputs it was passed and other than zero.
C6_Witness ==
    /\ rPc = "done"
    /\ Len(rLog) >= 4
    /\ \E k \in DOMAIN rLog :
        rLog[k].call = "prop" /\ rLog[k].ret # rLog[k].arg
            /\ \E i \in DOMAIN rLog[k].ret : rLog[k].ret[i] # 0

----------------------------------------------------------------------------
(* Claims on Spec *)

\* C1: whenever generate completes, the population holds exactly size
\* organisms: the crossover loop brought its length to
\* max(survivors, size * 3 / 4) and the clone loop added exactly size minus
\* that length; so every call of step starts and ends on size organisms.
C1_GenerateRefillsToSize ==
    /\ pc \in {"idle", "kill", "return"} => Len(self_population) = self_size
    /\ pc = "return" =>
        /\ nCrossed = Max(nSurvivors, (self_size * 3) \div 4)
        /\ Len(self_population) - nCrossed = self_size - nCrossed
        /\ nCrossed <= self_size

\* generate has completed from fewer survivors than size * 3 / 4, with both
\* the crossover loop and the clone loop having added organisms.
C1_Witness ==
    /\ pc = "return"
    /\ nSurvivors < nCrossed
    /\ nCrossed < self_size
    /\ Len(self_population) = self_size

\* C2: for every outcome of kill, generate completes: it never reads
\* population[i] or population[i + 1] outside the current population.
C2_GenerateNeverIndexesOutOfBounds ==
    ~(pc = "panicked" /\ panicked = "index")

\* The fitness of an organism that has been evaluated.
FitnessOf(org) == org.fitness[1]

C4_ReturnedIsBestOfThatStep ==
    (pc = "return" /\ ~self_settings.reset_fitness) => FitnessOf(self_best) = stepMax

\* kept is the first Len(kept) members of the group in some order that has
\* no kept member less fit than a discarded one.
KeptFittest(group, kept) ==
    \E p \in Shuffles(Len(group)) :
        /\ kept = SubSeq(Permuted(group, p), 1, Len(kept))
        /\ \A i \in 1..Len(kept) : \A j \in (Len(kept) + 1)..Len(group) :
               FitnessOf(group[p[i]]) >= FitnessOf(group[p[j]])

\* C8: after kill, every group of n >= 2 members has kept exactly
\* floor(n / 2) >= 1 of them, none less fit than a discarded member of the
\* group; a group of one is kept whole or removed whole; and the population
\* is what the groups kept, all of them organisms that were evaluated.
C8_KillKeepsFitterHalf ==
    pc = "generate" =>
        /\ Len(keptGroups) = Len(groups)
        /\ \A g \in DOMAIN groups :
            /\ Len(groups[g]) >= 2 =>
                /\ Len(keptGroups[g]) = Len(groups[g]) \div 2
                /\ Len(keptGroups[g]) >= 1
                /\ KeptFittest(groups[g], keptGroups[g])
            /\ Len(groups[g]) = 1 => keptGroups[g] \in {groups[g], <<>>}
        /\ self_population = Flatten(keptGroups)
        /\ \A i \in DOMAIN self_population :
            [genome |-> self_population[i].genome,
             fitness |-> FitnessOf(self_population[i])] \in evaluated

\* kill has halved a group of three with different fitness values and has
\* removed a group of one.
C8_Witness ==
    /\ pc = "generate"
    /\ \E g \in DOMAIN groups :
        /\ Len(groups[g]) >= 2
        /\ \E i, j \in DOMAIN groups[g] : FitnessOf(groups[g][i]) # FitnessOf(groups[g][j])
    /\ \E g \in DOMAIN groups : Len(groups[g]) = 1 /\ keptGroups[g] = <<>>

----------------------------------------------------------------------------
(* Claims on SpecFeedforward *)

\* The keys of the enabled connections of g: the edges a network is compiled from.
EnabledKeys(g) == {g.connections[i].key : i \in {j \in DOMAIN g.connections : g.connections[j].enabled}}

\* The nodes reached from `from` along edges in at most k more steps.
RECURSIVE ReachedWithin(_, _, _)
ReachedWithin(edges, from, k) ==
    IF k = 0
    THEN from
    ELSE ReachedWithin(edges, from \cup {e[2] : e \in {x \in edges : x[1] \in from}}, k - 1)

\* Some edge leads back to its own source.
HasCycle(edges) ==
    \E e \in edges : e[1] \in ReachedWithin(edges, {e[2]}, Cardinality(edges))

\* C11: with feedforward enabled, no genome reached from the minimal genome
\* by add_connection, add_node and cross has a directed cycle among its
\* connections (stated for the enabled ones, which a network is compiled from).
C11_FeedforwardGenomesAreAcyclic ==
    gSettings.feedforward => \A i \in DOMAIN gPool : ~HasCycle(EnabledKeys(gPool[i]))

----------------------------------------------------------------------------
(* Claims on SpecEval *)

\* The edges of a compiled network: <<source, target>> for every Edge.
NetEdges(net) ==
    UNION {{<<net.nodes[i].inputs[k].start, net.nodes[i].id>> : k \in DOMAIN net.nodes[i].inputs} :
              i \in DOMAIN net.nodes}

\* The nodes of a network that are not inputs.
NonInputs(net) == Len(net.nodes) - net.inputs

\* C12 as stated: on a network whose enabled connections contain a directed
\* cycle, eval can recurse without end, so prop does not return.
C12_PropOnCycleDoesNotReturn ==
    HasCycle(NetEdges(eNet)) => ePc # "done"

\* C12 as amended: on every network, with or without a cycle, eval recurses
\* into a node only when it has just marked it solved, so a prop makes at
\* most one call of eval per output and one per node that is not an input,
\* the calls in progress never exceed those nodes by more than the one prop
\* made, prop is never stuck before it returns, and what it leaves in the
\* network is what Prop computes.
C12_EvalRecursionIsBounded ==
    /\ ePc \in {"start", "loop", "eval", "done"}
    /\ Len(eStack) <= NonInputs(eNet) + 1
    /\ eCalls <= eNet.outputs + NonInputs(eNet)
    /\ \A d \in 2..Len(eStack) : eStack[d].node.id \in eSolved
    /\ \A d \in DOMAIN eStack : eStack[d].k <= Len(eStack[d].node.inputs) + 1
    /\ ePc # "done" => ENABLED NextEval
    /\ ePc = "done" => eNet = Prop(Reset(eNet), eInputs)

\* A prop that returned on a network with a cycle, after recursing into it.
C12_Witness ==
    /\ ePc = "done"
    /\ HasCycle(NetEdges(eNet))
    /\ eCalls >= 3

----------------------------------------------------------------------------
(* Claims on SpecExecute *)

\* C13: whatever the order in which the threads of execute take and finish
\* organisms, kill starts only when every organism has a fitness and no
\* thread is at work; every organism that lacked a fitness was evaluated
\* exactly once, on a network compiled from its own genome; and with
\* reset_fitness disabled an organism that had a fitness was not evaluated
\* again and keeps it.  No organism is ever evaluated twice in one execute.
C13_ExecuteCompletesBeforeKill ==
    /\ pc = "execute" => \A i \in DOMAIN xUsed : Len(xUsed[i]) <= 1
    /\ pc = "kill" =>
        /\ xTodo = {} /\ \A w \in Workers : xWorker[w] = <<>>
        /\ Len(self_population) = Len(xBefore)
        /\ \A i \in DOMAIN self_population :
            /\ self_population[i].fitness # <<>>
            /\ self_population[i].genome = xBefore[i].genome
            /\ xBefore[i].fitness = <<>> => xUsed[i] = <<xBefore[i].genome>>
            /\ (xBefore[i].fitness # <<>> /\ ~self_settings.reset_fitness) =>
                   xUsed[i] = <<>> /\ self_population[i] = xBefore[i]

\* The second execute of a run with reset_fitness disabled is done: it left
\* a survivor with the fitness it had and evaluated a new organism.
C13_Witness ==
    /\ pc = "kill" /\ nStep = 1 /\ ~self_settings.reset_fitness
    /\ \E i \in DOMAIN xBefore : xBefore[i].fitness # <<>> /\ xUsed[i] = <<>>
    /\ \E i \in DOMAIN xBefore : xBefore[i].fitness = <<>> /\ Len(xUsed[i]) = 1

\* C14: every organism generate adds derives from survivors of kill only: a
\* crossover offspring from two survivors adjacent in the shuffled survivor
\* list, a clone from one survivor; never from an organism the same call of
\* generate has created.
C14_OffspringDeriveFromSurvivors ==
    \A k \in DOMAIN nSources :
        /\ \A j \in DOMAIN nSources[k] : nSources[k][j] < nSurvivors
        /\ Len(nSources[k]) = 2 => nSources[k][2] = nSources[k][1] + 1

\* C15: add_node on a genome with a connection disables the connection
\* (s, t) it picks and adds exactly one new node n, the registry id of (s, t),
\* with the default activation, and exactly two new enabled connections,
\* (s, n) of weight 1.0 and (n, t) of the weight of (s, t), leaving every other
\* node and connection as it was; on a genome without connections it changes
\* nothing.
C15_AddNodeAddsOneNodeAndTwoConnections ==
    (gLast.op = "add_node" /\ ~gLast.panic) =>
        LET before == gLast.before
            after == gPool[gLast.target]
        IN  IF before.connections = <<>>
            THEN after = before
            ELSE LET info == before.connections[gLast.index + 1]
                     n == InnovGet(gInnov, info.key)[1]
                     disabled == [before.connections EXCEPT ![gLast.index + 1].enabled = FALSE]
                 IN  /\ after.nodes =
                            Append(before.nodes, [id |-> n, activation |-> DefaultActivation])
                     /\ after.connections =
                            disabled \o
                            <<[key |-> <<info.key[1], n>>, weight |-> SplitWeight,
                               enabled |-> TRUE],
                              [key |-> <<n, info.key[2]>>, weight |-> info.weight,
                               enabled |-> TRUE]>>
                     /\ after.inputs = before.inputs /\ after.outputs = before.outputs

\* The 1-based position of the first connection of g that has the node id as
\* an endpoint, 0 if there is none.
FirstGeneAt(g, id) ==
    LET at == {k \in DOMAIN g.connections : id \in {g.connections[k].key[1],
                                                     g.connections[k].key[2]}}
    IN  IF at = {} THEN 0 ELSE CHOOSE k \in at : \A m \in at : k <= m

\* C16: in the child of cross(better, worse) every node, input and output
\* nodes included, has the activation of a parent: that of worse when the
\* first gene that brings the node in was taken from worse, that of better
\* otherwise.
C16_ChildActivationsAreInherited ==
    (gLast.op = "cross" /\ ~gLast.panic) =>
        LET child == gPool[gLast.child]
            better == gLast.better
            worse == gLast.worse
        IN  \A p \in DOMAIN child.nodes :
                LET id == child.nodes[p].id
                    k == FirstGeneAt(better, id)
                    parent == IF k # 0 /\ better.connections[k].key \in ConnKeys(worse)
                                        /\ gLast.fromWorse[k]
                              THEN worse ELSE better
                IN  /\ id \in NodeIds(parent)
                    /\ child.nodes[p].activation =
                           parent.nodes[NodePos(parent.nodes, id)].activation

\* C17: in every genome made from Genome::new by add_connection, add_node,
\* mutate and cross, the node at insertion position i is the node of id i for
\* every i < inputs + outputs, and every node after them (a hidden node) has
\* an id >= inputs + outputs; the network compiled from the genome has the same
\* nodes at the positions set_inputs and get_outputs address.
C17_ReservedNodesKeepTheirPositions ==
    \A i \in DOMAIN gPool :
        LET g == gPool[i]
            reserved == g.inputs + g.outputs
            net == NetworkNew(g)
        IN  /\ Len(g.nodes) >= reserved
            /\ \A p \in DOMAIN g.nodes :
                   IF p <= reserved THEN g.nodes[p].id = p - 1
                   ELSE g.nodes[p].id >= reserved
            /\ \A p \in 1..reserved : net.nodes[p].id = p - 1

\* A child of cross that has a hidden node and a genome grown by add_node.
C17_Witness ==
    /\ gLast.op = "cross" /\ ~gLast.panic
    /\ Len(gPool[gLast.child].nodes) > gPool[gLast.child].inputs + gPool[gLast.child].outputs
    /\ Len(gLast.worse.nodes) < Len(gPool[gLast.child].nodes)

\* C18: in every state of a Neat, every connection key of every genome of
\* the population and of the tracked best organism is registered in the
\* registry of the Neat, and the registry lookup of add_node has not failed.
C18_PopulationKeysAreRegistered ==
    /\ \A i \in DOMAIN self_population :
           ConnKeys(self_population[i].genome) \subseteq InnovKeys(self_innovations)
    /\ ConnKeys(self_best.genome) \subseteq InnovKeys(self_innovations)
    /\ panicked # "add_node"

\* generate has crossed two survivors and add_node has split a connection of
\* a clone: the clone has a node its source lacks.
C18_Witness ==
    /\ pc = "return"
    /\ nCrossed > nSurvivors
    /\ \E k \in DOMAIN nSources :
           /\ Len(nSources[k]) = 1
           /\ Len(self_population[nSurvivors + k].genome.nodes) >
                  Len(self_population[nSources[k][1] + 1].genome.nodes)

====
